---- MODULE Spec2Model ----
(***************************************************************************)
(* A model of Codes/mindeye2_src/Train.py, the MindEye2 training script.   *)
(*                                                                         *)
(* The script is one straight-line program run by every worker of a        *)
(* data-parallel job.  Seven specifications look at it:                    *)
(*                                                                         *)
(*   Spec         one worker running the epoch loop (lines 490-841): the   *)
(*                pre-load, the training iterations, the evaluation pass,  *)
(*                the checkpoint calls, the barrier and the final save.    *)
(*   SpecWorkers  the same actions run by NumWorkers workers.              *)
(*   SpecLoad     the inside of the epoch batch pre-load (lines 536-568).  *)
(*   SpecEval     the inside of the evaluation of one test batch           *)
(*                (lines 689-776): test-set grouping, repeat averaging.    *)
(*   SpecCkpt     save_ckpt and load_ckpt (lines 453-483) called in any    *)
(*                order around training steps, after the start-up load of  *)
(*                lines 495-497.                                           *)
(*   SpecBatch    the pre-load followed by the assembly of each training   *)
(*                iteration's batch (lines 536-641), over several epochs.  *)
(*   SpecMix      the mixup interpolation on arbitrary rows, permutations, *)
(*                coefficients and masks (lines 560, 637-641).             *)
(*                                                                         *)
(* In Spec and SpecWorkers the pre-load and the evaluation of a batch are  *)
(* single steps that leave the tensors' contents out; SpecLoad and         *)
(* SpecEval model those contents.                                          *)
(***************************************************************************)
EXTENDS Integers, Sequences, FiniteSets, TLC

(***************************************************************************)
(* Bounds of the model.                                                    *)
(***************************************************************************)
MaxEpochs == 3
MaxIters == 2
MaxInterval == 2
MaxTestBatches == 2
MixupDen == 3
NumWorkers == 2

VARIABLES
  \* configuration (argparse, lines 64-168; accelerate state, lines 43-57)
  world_size,                \* accelerator.state.num_processes
  num_epochs,                \* --num_epochs
  num_iterations_per_epoch,  \* line 208
  mixup_num,                 \* --mixup_pct = mixup_num / MixupDen
  clip_scale,                \* --clip_scale (0: contrastive term off)
  ckpt_saving,               \* --ckpt_saving
  ckpt_interval,             \* --ckpt_interval
  num_test_batches,          \* number of batches test_dl yields (line 279)
  \* per-worker state of the script
  pc,                        \* position in the script
  epoch,                     \* the loop variable of line 511
  train_i,                   \* the loop variable of line 571
  test_i,                    \* the loop variable of line 689
  loss,                      \* kind of the last total loss computed (lines 574, 714)
  loss_phase,                \* where that loss was computed: "train" | "test"
  raised,                    \* the exception that ended the worker, if any
  params,                    \* model.state_dict(): key -> parameter
  opt_steps,                 \* optimizer.step() calls (optimizer state)
  sched_steps,               \* lr_scheduler.step() calls (scheduler state)
  backward_calls,            \* accelerator.backward() calls
  losses,                    \* train-loss history (line 491)
  lrs,                       \* learning-rate history (line 491)
  test_losses,               \* test-loss history (line 491)
  clip_log,                  \* per training iteration: the contrastive branch taken
  train_accum,               \* additions to the train accumulators this epoch
  test_accum,                \* additions to the test accumulators this epoch
  test_built,                \* test_image is not None (line 506, 694)
  bar,                       \* wait_for_everyone() calls entered
  writing,                   \* the checkpoint file a worker is writing, or NoTag
  \* the file system of outdir
  files,
  \* the epoch batch pre-load (lines 536-568)
  subj_list,                 \* lines 186-190
  batch_size,                \* per subject, line 206
  s_idx,                     \* `s` of line 540: the position in train_dls
  iter,                      \* line 542
  image_iters,               \* line 537: iteration -> row -> image
  voxel_iters,               \* line 536: <<subject, iteration>> -> voxel rows
  fetched_iters,             \* <<subject, iteration>> -> the batch (trials) stored there
  last_dropped,              \* the last fetched batch was skipped (line 548)
  ld_pc,                     \* position in the pre-load
  \* the evaluation of a test batch (lines 689-776)
  test_image,                \* line 506: one image per unique test image
  test_voxel,                \* line 506: per unique test image, 3 voxel rows
  built_from,                \* the image indices of the batch the test set was built from
  rep,                       \* the loop variable of line 724
  tensors,                   \* the tensors the forward passes returned, by identity
  clip_voxels,               \* line 728: the tensor the name is bound to
  clip_voxels0,              \* line 726
  backbone,                  \* line 729
  backbone0,                 \* line 726
  ev_pc,                     \* position in the evaluation
  \* the Checkpoint Manager (lines 453-483, 495-497)
  multisubject_ckpt,         \* --multisubject_ckpt is not None (line 82)
  multisubject_files,        \* the files of the directory multisubject_ckpt
  ck_call,                   \* the last call of save_ckpt or load_ckpt
  \* the mixup descriptors and the batch of a training iteration (lines 539-641)
  blurry_recon,              \* --blurry_recon (line 113)
  perm_iters,                \* line 539: <<subject, iteration>> -> perm, a
                             \* tensor being its values and the call that made it
  betas_iters,               \* line 539: <<subject, iteration>> -> betas
  select_iters,              \* line 539: <<subject, iteration>> -> select
  voxel_list,                \* line 576: per subject, the voxel rows
  train_image,               \* `image` of line 577: the image rows of the iteration
  perm,                      \* line 587: the values, and the tensors concatenated
  betas,                     \* line 589
  select,                    \* line 591
  train_voxel_ridge,         \* `voxel_ridge` of line 595: the concatenated projections
  image_enc,                 \* line 633, after lines 637-641
  bt_pc                      \* position in the assembly

cfgVars == <<world_size, num_epochs, num_iterations_per_epoch, mixup_num,
             clip_scale, ckpt_saving, ckpt_interval, num_test_batches>>

trainState == <<params, opt_steps, sched_steps, backward_calls, losses, lrs>>

runVars == <<pc, epoch, train_i, test_i, loss, loss_phase, raised, params,
             opt_steps, sched_steps, backward_calls, losses, lrs, test_losses,
             clip_log, train_accum, test_accum, test_built, bar, writing, files>>

loadVars == <<subj_list, batch_size, s_idx, iter, image_iters, voxel_iters,
              fetched_iters, last_dropped, ld_pc>>

evalVars_but_pc == <<test_image, test_voxel, built_from, rep, tensors,
                     clip_voxels, clip_voxels0, backbone, backbone0>>

evalVars == <<test_image, test_voxel, built_from, rep, tensors, clip_voxels,
              clip_voxels0, backbone, backbone0, ev_pc>>

ckptVars == <<multisubject_ckpt, multisubject_files, ck_call>>

descVars == <<perm_iters, betas_iters, select_iters>>

iterVars == <<voxel_list, train_image, perm, betas, select, train_voxel_ridge,
              image_enc>>

batchVars == <<blurry_recon, descVars, iterVars, bt_pc>>

vars == <<cfgVars, runVars, loadVars, evalVars, ckptVars, batchVars>>

(***************************************************************************)
(* Workers and ranks.                                                      *)
(***************************************************************************)
Workers == 0 .. (world_size - 1)

\* lines 31-35: RANK of the environment, 0 when unset
local_rank(w) == w

is_main_process(w) == w = 0

(***************************************************************************)
(* Losses.  The value of a loss depends on data and weights; the script    *)
(* only ever asks whether it is finite.                                    *)
(***************************************************************************)
LossKinds == {"finite", "nan", "inf"}

IsFinite(l) == l = "finite"

\* utils.check_loss: raises on a loss that holds a non-finite value
check_loss_raises(l) == ~IsFinite(l)

(***************************************************************************)
(* The staged schedule.                                                    *)
(***************************************************************************)
\* int(mixup_pct * num_epochs), lines 509, 559, 586, 613, 620, 637
MixupEpochs == (mixup_num * num_epochs) \div MixupDen

\* len(utils.cosine_anneal(0.004, 0.0075, num_epochs - int(mixup_pct * num_epochs)))
SoftTempsLen == num_epochs - MixupEpochs

UseMixup_OffByOne(e) == e <= MixupEpochs

\* the test of lines 559, 586, 613, 637
UseMixup(e) == e < MixupEpochs

\* lines 612-628: the branch the contrastive loss takes in epoch e
ClipBranch(e) ==
  IF clip_scale = 0 THEN [form |-> "off", idx |-> 0, ok |-> TRUE]
  ELSE IF UseMixup(e) THEN [form |-> "mixco", idx |-> 0, ok |-> TRUE]
  ELSE LET i == e - MixupEpochs
       IN  [form |-> "soft", idx |-> i, ok |-> (i >= -SoftTempsLen /\ i < SoftTempsLen)]

(***************************************************************************)
(* The model's parameters (lines 347-373): model.ridge holds one linear    *)
(* layer per subject of subj_list, model.backbone is shared.  A parameter  *)
(* is its shape, the initialisation it started from and the number of      *)
(* optimizer updates applied to it.                                        *)
(***************************************************************************)
\* the keys of model.state_dict()
RidgeWeight(i) == <<"ridge.linears", i, "weight">>
RidgeBias(i) == <<"ridge.linears", i, "bias">>
BackboneKey == <<"backbone", 0, "weight">>

\* lines 239-240: betas[0].shape[-1], which differs from subject to subject
num_voxels(s) == 100 + s

\* lines 352-354, 371: one Linear per entry of num_voxels_list, one backbone
ModelKeys(subjs) ==
  UNION {{RidgeWeight(i), RidgeBias(i)} : i \in 0 .. (Len(subjs) - 1)}
    \cup {BackboneKey}

\* lines 361, 371: the model as constructed
InitModel(subjs, origin) ==
  [k \in ModelKeys(subjs) |->
     [shape |-> IF k[1] = "ridge.linears" /\ k[3] = "weight"
                THEN num_voxels(subjs[k[2] + 1]) ELSE 0,
      init |-> origin,
      updates |-> 0]]

\* line 676: optimizer.step() updates every parameter
OptimizerStep(sd) == [k \in DOMAIN sd |-> [sd[k] EXCEPT !.updates = @ + 1]]

(***************************************************************************)
(* Checkpoint files.                                                       *)
(***************************************************************************)
NoTag == <<"none", 0>>
CkptTag(e) == <<"ckpt", e>>
LastTag == <<"last", 0>>

\* lines 457-465: what torch.save is handed
Snapshot(w) ==
  [epoch |-> epoch[w],
   model_state_dict |-> params[w],
   optimizer_state_dict |-> opt_steps[w],
   lr_scheduler |-> sched_steps[w],
   train_losses |-> losses[w],
   test_losses |-> test_losses[w],
   lrs |-> lrs[w]]

WritesCkpt_AnyRank(w) == TRUE

\* line 455: the guard of torch.save in save_ckpt
WritesCkpt(w) == is_main_process(w)

\* lines 453-466: save_ckpt(tag) up to the start of torch.save; `back` is where
\* the caller continues
save_ckpt(w, tag, during, back) ==
  IF WritesCkpt(w)
  THEN /\ writing' = [writing EXCEPT ![w] = tag]
       /\ pc' = [pc EXCEPT ![w] = during]
  ELSE /\ pc' = [pc EXCEPT ![w] = back]
       /\ UNCHANGED writing

(***************************************************************************)
(* The state after lines 490-509, for a job of n workers at position `at`. *)
(***************************************************************************)
InitRun(n, at) ==
  /\ world_size = n
  /\ pc = [w \in 0 .. (n - 1) |-> at]
  /\ epoch = [w \in 0 .. (n - 1) |-> 0]
  /\ train_i = [w \in 0 .. (n - 1) |-> 0]
  /\ test_i = [w \in 0 .. (n - 1) |-> 0]
  /\ loss = [w \in 0 .. (n - 1) |-> "finite"]
  /\ loss_phase = [w \in 0 .. (n - 1) |-> "none"]
  /\ raised = [w \in 0 .. (n - 1) |-> "none"]
  /\ params = [w \in 0 .. (n - 1) |-> InitModel(subj_list, "run")]
  /\ opt_steps = [w \in 0 .. (n - 1) |-> 0]
  /\ sched_steps = [w \in 0 .. (n - 1) |-> 0]
  /\ backward_calls = [w \in 0 .. (n - 1) |-> 0]
  /\ losses = [w \in 0 .. (n - 1) |-> <<>>]
  /\ lrs = [w \in 0 .. (n - 1) |-> <<>>]
  /\ test_losses = [w \in 0 .. (n - 1) |-> <<>>]
  /\ clip_log = [w \in 0 .. (n - 1) |-> <<>>]
  /\ train_accum = [w \in 0 .. (n - 1) |-> 0]
  /\ test_accum = [w \in 0 .. (n - 1) |-> 0]
  /\ test_built = [w \in 0 .. (n - 1) |-> FALSE]
  /\ bar = [w \in 0 .. (n - 1) |-> 0]
  /\ writing = [w \in 0 .. (n - 1) |-> NoTag]
  /\ files = <<>>

(***************************************************************************)
(* Lines 511-568: the head of an epoch.  model.train(), the accumulators   *)
(* are reset and the epoch's batches are pre-loaded (SpecLoad has the     *)
(* inside of the pre-load).                                                *)
(***************************************************************************)
Preload(w) ==
  /\ pc[w] = "preload"
  /\ train_accum' = [train_accum EXCEPT ![w] = 0]
  /\ test_accum' = [test_accum EXCEPT ![w] = 0]
  /\ train_i' = [train_i EXCEPT ![w] = 0]
  /\ pc' = [pc EXCEPT ![w] = "train"]
  /\ UNCHANGED <<cfgVars, ckptVars, batchVars, loadVars, evalVars, epoch, test_i, loss, loss_phase, raised, trainState,
                 test_losses, clip_log, test_built, bar, writing, files>>

(***************************************************************************)
(* Lines 571-682: one training iteration whose total loss is of kind l.    *)
(***************************************************************************)
TrainRaises_NoCheck(w, l) ==
  IF ~ClipBranch(epoch[w]).ok THEN "IndexError" ELSE "none"

TrainRaises_NanOnly(w, l) ==
  IF ~ClipBranch(epoch[w]).ok THEN "IndexError"
  ELSE IF l = "nan" THEN "ValueError"
  ELSE "none"

\* the exception of the iteration, "none" when it completes
TrainRaises(w, l) ==
  IF ~ClipBranch(epoch[w]).ok THEN "IndexError"
  ELSE IF check_loss_raises(l) THEN "ValueError"
  ELSE "none"

StepAndRecord_SchedPerEpoch(w, l) ==
  /\ backward_calls' = [backward_calls EXCEPT ![w] = @ + 1]
  /\ opt_steps' = [opt_steps EXCEPT ![w] = @ + 1]
  /\ params' = [params EXCEPT ![w] = OptimizerStep(@)]
  /\ losses' = [losses EXCEPT ![w] = Append(@, l)]
  /\ lrs' = [lrs EXCEPT ![w] = Append(@, sched_steps[w])]
  /\ sched_steps' = [sched_steps EXCEPT ![w] =
       IF train_i[w] + 1 = num_iterations_per_epoch THEN @ + 1 ELSE @]

\* lines 674-682 when nothing was raised
StepAndRecord(w, l) ==
  /\ backward_calls' = [backward_calls EXCEPT ![w] = @ + 1]
  /\ opt_steps' = [opt_steps EXCEPT ![w] = @ + 1]
  /\ params' = [params EXCEPT ![w] = OptimizerStep(@)]
  /\ losses' = [losses EXCEPT ![w] = Append(@, l)]
  /\ lrs' = [lrs EXCEPT ![w] = Append(@, sched_steps[w])]
  /\ sched_steps' = [sched_steps EXCEPT ![w] = @ + 1]

TrainIter(w) ==
  /\ pc[w] = "train"
  /\ \E l \in LossKinds :
       LET b == ClipBranch(epoch[w])
           x == TrainRaises(w, l)
       IN  /\ loss' = [loss EXCEPT ![w] = l]
           /\ loss_phase' = [loss_phase EXCEPT ![w] = "train"]
           /\ clip_log' = [clip_log EXCEPT ![w] =
                Append(@, [epoch |-> epoch[w], train_i |-> train_i[w],
                           form |-> b.form, idx |-> b.idx])]
           /\ train_accum' = [train_accum EXCEPT ![w] = @ + 1]
           /\ IF x # "none"
              THEN /\ raised' = [raised EXCEPT ![w] = x]
                   /\ pc' = [pc EXCEPT ![w] = "crashed"]
                   /\ UNCHANGED <<trainState, train_i>>
              ELSE /\ StepAndRecord(w, l)
                   /\ IF train_i[w] + 1 < num_iterations_per_epoch
                      THEN /\ train_i' = [train_i EXCEPT ![w] = @ + 1]
                           /\ UNCHANGED pc
                      ELSE /\ pc' = [pc EXCEPT ![w] = "eval"]
                           /\ UNCHANGED train_i
                   /\ UNCHANGED raised
  /\ UNCHANGED <<cfgVars, ckptVars, batchVars, loadVars, evalVars, epoch, test_i, test_losses, test_accum, test_built, bar,
                 writing, files>>

(***************************************************************************)
(* Lines 686-687: model.eval(); only local rank 0 runs the evaluation.     *)
(***************************************************************************)
RunsEval(w) == local_rank(w) = 0

EvalBegin(w) ==
  /\ pc[w] = "eval"
  /\ IF RunsEval(w)
     THEN /\ pc' = [pc EXCEPT ![w] = "test"]
          /\ test_i' = [test_i EXCEPT ![w] = 0]
     ELSE /\ pc' = [pc EXCEPT ![w] = "save"]
          /\ UNCHANGED test_i
  /\ UNCHANGED <<cfgVars, ckptVars, batchVars, loadVars, evalVars, epoch, train_i, loss, loss_phase, raised, trainState,
                 test_losses, clip_log, train_accum, test_accum, test_built,
                 bar, writing, files>>

(***************************************************************************)
(* Lines 689-776: the evaluation of one test batch, and after the last one *)
(* the report of lines 779-827.  The first batch of the run builds the     *)
(* test set, whose assertion (line 706) holds (grouped) or fails; l is the *)
(* kind of the test loss.  SpecEval has the inside of this step.           *)
(***************************************************************************)
EvalUpdates_StepsOptimizer(w) ==
  /\ backward_calls' = [backward_calls EXCEPT ![w] = @ + 1]
  /\ opt_steps' = [opt_steps EXCEPT ![w] = @ + 1]
  /\ params' = [params EXCEPT ![w] = OptimizerStep(@)]
  /\ UNCHANGED <<losses, lrs, sched_steps>>

\* lines 688-776 run under torch.no_grad() and hold no backward(), no
\* optimizer.step(), no lr_scheduler.step() and no append to losses or lrs
EvalUpdates(w) == UNCHANGED trainState

\* what the evaluation of a batch changes besides the position in the script
EvalEffects(w, grouped, l) ==
  IF ~grouped
  THEN /\ raised' = [raised EXCEPT ![w] = "AssertionError"]
       /\ pc' = [pc EXCEPT ![w] = "crashed"]
       /\ UNCHANGED <<trainState, loss, loss_phase, test_losses, test_accum,
                      test_built, test_i>>
  ELSE /\ test_built' = [test_built EXCEPT ![w] = TRUE]
       /\ loss' = [loss EXCEPT ![w] = l]
       /\ loss_phase' = [loss_phase EXCEPT ![w] = "test"]
       /\ test_accum' = [test_accum EXCEPT ![w] = @ + 1]
       /\ EvalUpdates(w)
       /\ IF check_loss_raises(l)
          THEN /\ raised' = [raised EXCEPT ![w] = "ValueError"]
               /\ pc' = [pc EXCEPT ![w] = "crashed"]
               /\ UNCHANGED <<test_losses, test_i>>
          ELSE /\ test_losses' = [test_losses EXCEPT ![w] = Append(@, l)]
               /\ UNCHANGED raised
               /\ IF test_i[w] + 1 < num_test_batches
                  THEN /\ test_i' = [test_i EXCEPT ![w] = @ + 1]
                       /\ UNCHANGED pc
                  ELSE /\ pc' = [pc EXCEPT ![w] = "save"]
                       /\ UNCHANGED test_i

EvalBatch(w) ==
  /\ pc[w] = "test"
  /\ \E l \in LossKinds :
       \E grouped \in (IF test_built[w] THEN {TRUE} ELSE BOOLEAN) :
         EvalEffects(w, grouped, l)
  /\ UNCHANGED <<cfgVars, ckptVars, batchVars, loadVars, evalVars, epoch, train_i, clip_log, train_accum, bar, writing, files>>

(***************************************************************************)
(* Lines 829-831: the periodic checkpoint; every worker makes the call.    *)
(***************************************************************************)
SaveCall(w) ==
  /\ pc[w] = "save"
  /\ IF ckpt_saving /\ epoch[w] % ckpt_interval = 0
     THEN save_ckpt(w, CkptTag(epoch[w]), "saving_ckpt", "barrier")
     ELSE /\ pc' = [pc EXCEPT ![w] = "barrier"]
          /\ UNCHANGED writing
  /\ UNCHANGED <<cfgVars, ckptVars, batchVars, loadVars, evalVars, epoch, train_i, test_i, loss, loss_phase, raised, trainState,
                 test_losses, clip_log, train_accum, test_accum, test_built,
                 bar, files>>

(***************************************************************************)
(* Lines 457-465: torch.save ends; the file holds the snapshot.            *)
(***************************************************************************)
\* lines 457-465: the file of the tag holds the snapshot
torch_save(w) ==
  /\ files' = [t \in (DOMAIN files) \cup {writing[w]} |->
                 IF t = writing[w] THEN Snapshot(w) ELSE files[t]]
  /\ writing' = [writing EXCEPT ![w] = NoTag]

SaveWrite(w) ==
  /\ pc[w] \in {"saving_ckpt", "saving_last"}
  /\ torch_save(w)
  /\ pc' = [pc EXCEPT ![w] = IF pc[w] = "saving_ckpt" THEN "barrier" ELSE "done"]
  /\ UNCHANGED <<cfgVars, ckptVars, batchVars, loadVars, evalVars, epoch, train_i, test_i, loss, loss_phase, raised, trainState,
                 test_losses, clip_log, train_accum, test_accum, test_built, bar>>

(***************************************************************************)
(* Line 834: accelerator.wait_for_everyone().  A worker enters the barrier *)
(* and leaves it once every worker has entered it as many times; it then   *)
(* runs lines 835-837 and the loop of line 511 goes to the next epoch or   *)
(* ends, leaving epoch at its last value.                                  *)
(***************************************************************************)
BarrierEnter(w) ==
  /\ pc[w] = "barrier"
  /\ bar' = [bar EXCEPT ![w] = @ + 1]
  /\ pc' = [pc EXCEPT ![w] = "waiting"]
  /\ UNCHANGED <<cfgVars, ckptVars, batchVars, loadVars, evalVars, epoch, train_i, test_i, loss, loss_phase, raised, trainState,
                 test_losses, clip_log, train_accum, test_accum, test_built,
                 writing, files>>

BarrierOpen_NoWait(w) == TRUE

BarrierOpen(w) == \A v \in Workers : bar[v] >= bar[w]

BarrierLeave(w) ==
  /\ pc[w] = "waiting"
  /\ BarrierOpen(w)
  /\ IF epoch[w] + 1 < num_epochs
     THEN /\ epoch' = [epoch EXCEPT ![w] = @ + 1]
          /\ pc' = [pc EXCEPT ![w] = "preload"]
     ELSE /\ pc' = [pc EXCEPT ![w] = "final"]
          /\ UNCHANGED epoch
  /\ UNCHANGED <<cfgVars, ckptVars, batchVars, loadVars, evalVars, train_i, test_i, loss, loss_phase, raised, trainState,
                 test_losses, clip_log, train_accum, test_accum, test_built,
                 bar, writing, files>>

(***************************************************************************)
(* Lines 839-841: the final save.                                          *)
(***************************************************************************)
FinalSave(w) ==
  /\ pc[w] = "final"
  /\ IF ckpt_saving
     THEN save_ckpt(w, LastTag, "saving_last", "done")
     ELSE /\ pc' = [pc EXCEPT ![w] = "done"]
          /\ UNCHANGED writing
  /\ UNCHANGED <<cfgVars, ckptVars, batchVars, loadVars, evalVars, epoch, train_i, test_i, loss, loss_phase, raised, trainState,
                 test_losses, clip_log, train_accum, test_accum, test_built,
                 bar, files>>

(***************************************************************************)
(* The specifications of the epoch loop.                                   *)
(***************************************************************************)
InitCfg ==
  /\ num_epochs \in 1 .. MaxEpochs
  /\ num_iterations_per_epoch \in 1 .. MaxIters
  /\ mixup_num \in 0 .. MixupDen
  /\ clip_scale \in {0, 1}
  /\ ckpt_saving \in BOOLEAN
  /\ ckpt_interval \in 1 .. MaxInterval
  /\ num_test_batches \in 1 .. MaxTestBatches

\* the pre-load's variables while the model does not look inside it
IdleLoad ==
  /\ subj_list = <<1>>
  /\ batch_size = 1
  /\ s_idx = 0
  /\ iter = -1
  /\ image_iters = <<>>
  /\ voxel_iters = <<>>
  /\ fetched_iters = <<>>
  /\ last_dropped = FALSE
  /\ ld_pc = "idle"

\* the evaluation's variables while the model does not look inside it
IdleEval ==
  /\ test_image = <<>>
  /\ test_voxel = <<>>
  /\ built_from = <<>>
  /\ rep = 0
  /\ tensors = <<>>
  /\ clip_voxels = 0
  /\ clip_voxels0 = 0
  /\ backbone = 0
  /\ backbone0 = 0
  /\ ev_pc = "idle"

\* the Checkpoint Manager's variables in a run without --multisubject_ckpt
NoCall ==
  [op |-> "none", tag |-> NoTag, load_lr |-> FALSE, load_optimizer |-> FALSE,
   load_epoch |-> FALSE, strict |-> FALSE, multisubj_loading |-> FALSE]

IdleCkpt ==
  /\ multisubject_ckpt = FALSE
  /\ multisubject_files = <<>>
  /\ ck_call = NoCall

\* the descriptors and the iteration's batch before anything is assembled
NoDescriptors ==
  /\ perm_iters = <<>>
  /\ betas_iters = <<>>
  /\ select_iters = <<>>

NoBatch ==
  /\ voxel_list = <<>>
  /\ train_image = <<>>
  /\ perm = <<>>
  /\ betas = <<>>
  /\ select = <<>>
  /\ train_voxel_ridge = <<>>
  /\ image_enc = <<>>

IdleBatch ==
  /\ blurry_recon = TRUE
  /\ NoDescriptors
  /\ NoBatch
  /\ bt_pc = "idle"

Init ==
  InitCfg /\ IdleLoad /\ InitRun(1, "preload") /\ IdleEval /\ IdleCkpt /\ IdleBatch

\* many workers: one iteration per epoch and one test batch keep the
\* interleavings within reach
InitWorkers ==
  /\ num_epochs \in 1 .. MaxEpochs
  /\ num_iterations_per_epoch = 1
  /\ mixup_num = 1
  /\ clip_scale = 1
  /\ ckpt_saving \in BOOLEAN
  /\ ckpt_interval \in 1 .. MaxInterval
  /\ num_test_batches = 1
  /\ IdleLoad
  /\ InitRun(NumWorkers, "preload")
  /\ IdleEval
  /\ IdleCkpt
  /\ IdleBatch

Next ==
  \/ \E w \in Workers : Preload(w)
  \/ \E w \in Workers : TrainIter(w)
  \/ \E w \in Workers : EvalBegin(w)
  \/ \E w \in Workers : EvalBatch(w)
  \/ \E w \in Workers : SaveCall(w)
  \/ \E w \in Workers : SaveWrite(w)
  \/ \E w \in Workers : BarrierEnter(w)
  \/ \E w \in Workers : BarrierLeave(w)
  \/ \E w \in Workers : FinalSave(w)

Spec == Init /\ [][Next]_vars

SpecWorkers == InitWorkers /\ [][Next]_vars

(***************************************************************************)
(* Properties of the epoch loop.                                           *)
(***************************************************************************)
\* floor(mixup_pct * num_epochs), as the largest integer not above the product
FloorMixup ==
  CHOOSE n \in 0 .. num_epochs :
    /\ n * MixupDen <= mixup_num * num_epochs
    /\ mixup_num * num_epochs < (n + 1) * MixupDen

\* C2: with k = floor(mixup_pct*num_epochs) and the contrastive term on, every
\* training iteration of an epoch e <= k-1 takes the mixco_nce branch, every
\* iteration of an epoch e >= k takes the soft_clip_loss branch with the
\* temperature at index e-k of a schedule of num_epochs-k entries, the index is
\* in range (no IndexError), and no epoch takes both branches.
C2_RegimeSwitchExact ==
  \A w \in Workers :
    /\ raised[w] # "IndexError"
    /\ Len(clip_log[w]) >= Len(losses[w])
    /\ \A j \in 1 .. Len(clip_log[w]) :
         LET c == clip_log[w][j]
         IN  /\ clip_scale > 0 => c.form \in {"mixco", "soft"}
             /\ c.form = "mixco" => c.epoch <= FloorMixup - 1
             /\ c.form = "soft" =>
                  /\ c.epoch >= FloorMixup
                  /\ c.idx = c.epoch - FloorMixup
                  /\ c.idx \in 0 .. (num_epochs - FloorMixup - 1)
    /\ \A i, j \in 1 .. Len(clip_log[w]) :
         clip_log[w][i].epoch = clip_log[w][j].epoch
           => clip_log[w][i].form = clip_log[w][j].form

\* a run that trained epoch k-1 with mixco and epoch k with the soft loss
C2_Witness ==
  \E w \in Workers : \E i, j \in 1 .. Len(clip_log[w]) :
    /\ FloorMixup >= 1
    /\ clip_log[w][i].epoch = FloorMixup - 1
    /\ clip_log[w][i].form = "mixco"
    /\ clip_log[w][j].epoch = FloorMixup
    /\ clip_log[w][j].form = "soft"
    /\ clip_log[w][j].idx = 0

\* a step of w that is a training iteration (only those extend clip_log)
IsTrainIteration(w) == Len(clip_log'[w]) = Len(clip_log[w]) + 1

\* C3: a training iteration whose total loss is non-finite performs no backward
\* pass, no optimizer step and no scheduler step, leaves the parameters alone
\* and appends nothing to the loss and learning-rate histories.
C3_NonFiniteStepAborted ==
  [][\A w \in Workers :
       (IsTrainIteration(w) /\ ~IsFinite(loss'[w])) =>
         /\ backward_calls'[w] = backward_calls[w]
         /\ opt_steps'[w] = opt_steps[w]
         /\ sched_steps'[w] = sched_steps[w]
         /\ params'[w] = params[w]
         /\ losses'[w] = losses[w]
         /\ lrs'[w] = lrs[w]]_vars

\* a non-finite training loss after at least one completed iteration
C3_Witness ==
  \E w \in Workers :
    /\ loss_phase[w] = "train"
    /\ ~IsFinite(loss[w])
    /\ Len(losses[w]) >= 1
    /\ Len(clip_log[w]) = Len(losses[w]) + 1

\* C4 as claimed: after a training iteration with a non-finite loss the loop
\* goes on (to the next iteration, or to the evaluation of the epoch).
C4_RunContinues ==
  \A w \in Workers :
    (loss_phase[w] = "train" /\ ~IsFinite(loss[w])) => pc[w] \in {"train", "eval"}

\* C4 amended: a non-finite loss in a training iteration ends the worker's run:
\* the exception of check_loss is caught nowhere, the iteration that raised is
\* the last one the worker ever starts, and no evaluation, checkpoint or later
\* epoch follows it.
C4_NonFiniteEndsRun ==
  \A w \in Workers :
    (loss_phase[w] = "train" /\ ~IsFinite(loss[w])) =>
      /\ pc[w] = "crashed"
      /\ raised[w] = "ValueError"
      /\ Len(clip_log[w]) = Len(losses[w]) + 1
      /\ clip_log[w][Len(clip_log[w])].epoch = epoch[w]
      /\ clip_log[w][Len(clip_log[w])].train_i = train_i[w]
      /\ Len(test_losses[w]) = epoch[w] * num_test_batches
      /\ \A t \in DOMAIN files : files[t].epoch < epoch[w]

\* the run ended by a non-finite loss with iterations and epochs still to come
C4_Witness ==
  \E w \in Workers :
    /\ loss_phase[w] = "train"
    /\ ~IsFinite(loss[w])
    /\ pc[w] = "crashed"
    /\ train_i[w] + 1 < num_iterations_per_epoch
    /\ epoch[w] + 1 < num_epochs

\* the positions of the script between the last training iteration of an epoch
\* and the head of the next one
AfterTraining == {"eval", "test", "save", "saving_ckpt", "barrier", "waiting"}

AfterLoop == {"final", "saving_last", "done"}

\* C5: the optimizer step count, the scheduler step count and the length of
\* the train-loss history are equal at all times and count the completed
\* iterations; at the end of epoch e each is (e+1)*num_iterations_per_epoch,
\* and none exceeds num_epochs*num_iterations_per_epoch.
C5_OneStepPerIteration ==
  \A w \in Workers :
    /\ opt_steps[w] = sched_steps[w]
    /\ opt_steps[w] = Len(losses[w])
    /\ opt_steps[w] = Len(lrs[w])
    /\ opt_steps[w] <= num_epochs * num_iterations_per_epoch
    /\ pc[w] = "train" =>
         opt_steps[w] = epoch[w] * num_iterations_per_epoch + train_i[w]
    /\ pc[w] \in AfterTraining =>
         opt_steps[w] = (epoch[w] + 1) * num_iterations_per_epoch
    /\ pc[w] \in AfterLoop =>
         opt_steps[w] = num_epochs * num_iterations_per_epoch

\* the end of the second epoch of a run with two iterations per epoch
C5_Witness ==
  \E w \in Workers :
    /\ pc[w] = "waiting"
    /\ epoch[w] = 1
    /\ num_iterations_per_epoch = 2
    /\ opt_steps[w] = 4
    /\ sched_steps[w] = 4
    /\ Len(losses[w]) = 4

\* C6: no step of the evaluation pass (lines 686-827) changes the model
\* parameters, the optimizer state, the scheduler state, the number of backward
\* passes, the epoch counter or the train-loss and learning-rate histories; nor
\* the train accumulators, the barrier count or the checkpoint files.
C6_EvalFrame ==
  [][\A w \in Workers :
       pc[w] \in {"eval", "test"} =>
         /\ params'[w] = params[w]
         /\ opt_steps'[w] = opt_steps[w]
         /\ sched_steps'[w] = sched_steps[w]
         /\ backward_calls'[w] = backward_calls[w]
         /\ epoch'[w] = epoch[w]
         /\ losses'[w] = losses[w]
         /\ lrs'[w] = lrs[w]
         /\ train_i'[w] = train_i[w]
         /\ train_accum'[w] = train_accum[w]
         /\ clip_log'[w] = clip_log[w]
         /\ bar'[w] = bar[w]
         /\ writing'[w] = writing[w]
         /\ files' = files]_vars

\* in the middle of an evaluation pass of a trained model: one test batch
\* scored, another to come
C6_Witness ==
  \E w \in Workers :
    /\ pc[w] = "test"
    /\ test_i[w] = 1
    /\ test_accum[w] = 1
    /\ Len(test_losses[w]) >= 1
    /\ opt_steps[w] >= 1

(***************************************************************************)
(* Properties of the multi-worker run (SpecWorkers).                       *)
(***************************************************************************)
\* C9: only the main process ever writes a checkpoint file, the periodic
\* ckpt_<epoch> and the final 'last' alike, so no two workers are ever writing
\* the same file at once; every file on disk holds the state of the worker that
\* evaluates (its test-loss history has the entries of every epoch so far).
C9_SingleWriter ==
  /\ \A w \in Workers : writing[w] # NoTag => is_main_process(w)
  /\ \A w \in Workers : pc[w] \in {"saving_ckpt", "saving_last"} => is_main_process(w)
  /\ \A w, v \in Workers :
       (w # v /\ writing[w] # NoTag) => writing[v] # writing[w]
  /\ \A t \in DOMAIN files :
       Len(files[t].test_losses) = (files[t].epoch + 1) * num_test_batches

\* the main process is writing ckpt_<epoch> while another worker has made the
\* same save_ckpt call and gone on to the barrier
C9_Witness ==
  \E v \in Workers :
    /\ ~is_main_process(v)
    /\ writing[0] = CkptTag(epoch[0])
    /\ epoch[v] = epoch[0]
    /\ pc[v] \in {"barrier", "waiting"}
    /\ writing[v] = NoTag

\* C10: no worker is in epoch e+1 before every worker has entered the barrier
\* of epoch e, which the main process does only after its evaluation pass and
\* checkpoint write of epoch e; two workers' epoch counters differ by at most
\* one, and then the one behind is waiting in the barrier; each worker enters
\* the barrier once per epoch.
C10_EpochBarrier ==
  /\ \A w, v \in Workers :
       epoch[w] > epoch[v] => (epoch[w] = epoch[v] + 1 /\ pc[v] = "waiting")
  /\ \A w \in Workers :
       /\ bar[w] = IF pc[w] \in {"waiting"} \cup AfterLoop
                   THEN epoch[w] + 1 ELSE epoch[w]
       /\ pc[w] \in AfterLoop => \A v \in Workers : bar[v] = num_epochs
       /\ epoch[w] >= 1 =>
            /\ Len(test_losses[0]) >= epoch[w] * num_test_batches
            /\ (ckpt_saving /\ (epoch[w] - 1) % ckpt_interval = 0) =>
                 /\ CkptTag(epoch[w] - 1) \in DOMAIN files
                 /\ files[CkptTag(epoch[w] - 1)].epoch = epoch[w] - 1

\* a worker training epoch 1 while the main process, done with epoch 0, has
\* not left the barrier yet
C10_Witness ==
  \E w \in Workers :
    /\ epoch[w] = 1
    /\ pc[w] = "train"
    /\ epoch[0] = 0
    /\ pc[0] = "waiting"
    /\ Len(test_losses[0]) = 1

(***************************************************************************)
(* The epoch batch pre-load, lines 536-568 (SpecLoad).                     *)
(*                                                                         *)
(* A subject's loader yields batches of batch_size trials, drawn with      *)
(* replacement (resampled=True, line 224).  Trial t shows image            *)
(* TrialImage(t) and has its voxels in row t of the subject's betas.       *)
(***************************************************************************)
NumTrials == 3
NumImages == 2
MaxBatch == 2
\* the most rows (iterations x subjects x batch_size) of the buffer of line 537
MaxBufferRows == 8

SubjLists == {<<1>>, <<2, 3>>}

Trials == 1 .. NumTrials

\* behav0[:, 0, 0] of a trial: the image shown (trials beyond NumImages repeat)
TrialImage(t) == ((t - 1) % NumImages) + 1

\* behav0[:, 0, 5] of a trial: its row in the subject's voxel table
TrialVoxel(t) == t

\* images[i], line 550: the pixels of image i (0 is the zero tensor of line 537)
ImagePixels(i) == 100 + i

\* voxels[f'subj0{subj}'][row], line 556 (lines 234-239)
VoxelStore(subj, row) == 10 * subj + row

RECURSIVE SortedSeq(_)
\* the elements of a set of integers in ascending order
SortedSeq(S) ==
  IF S = {} THEN <<>>
  ELSE LET m == CHOOSE x \in S : \A y \in S : x <= y
       IN  <<m>> \o SortedSeq(S \ {m})

Range(f) == {f[i] : i \in DOMAIN f}

\* the unique values in the order of their first occurrence, not sorted
Unique_Unsorted(image_idx) ==
  LET first == {i \in 1 .. Len(image_idx) :
                  \A h \in 1 .. (i - 1) : image_idx[h] # image_idx[i]}
      idx == SortedSeq(first)
  IN  [values |-> [j \in 1 .. Len(idx) |-> image_idx[idx[j]]], index |-> idx]

\* np.unique(image_idx, return_index=True), line 546: the sorted unique values
\* and the position of the first occurrence of each
Unique(image_idx) ==
  LET vals == SortedSeq(Range(image_idx))
  IN  [values |-> vals,
       index |-> [j \in 1 .. Len(vals) |->
                    CHOOSE i \in 1 .. Len(image_idx) :
                      /\ image_idx[i] = vals[j]
                      /\ \A h \in 1 .. (i - 1) : image_idx[h] # vals[j]]]

SkipsBatch_Never(image0, image_idx) == FALSE

\* line 547: the batch holds a repeated image index
SkipsBatch(image0, image_idx) == Len(image0) # Len(image_idx)

\* line 551: image_iters[iter, s*batch_size : s*batch_size+batch_size] = image0;
\* a single row is broadcast over the slice, any other length mismatch raises
SliceAssignable(image0) == Len(image0) \in {1, batch_size}

SliceAssign(buf, it, s, image0) ==
  [buf EXCEPT ![it] =
     [r \in DOMAIN buf[it] |->
        IF r \in (s * batch_size) .. (s * batch_size + batch_size - 1)
        THEN image0[IF Len(image0) = 1 THEN 1 ELSE r - s * batch_size + 1]
        ELSE buf[it][r]]]

(***************************************************************************)
(* Mixup.  A coefficient is a number of BetaDen-ths.  The interpolation is  *)
(* computed exactly and its result rounded down once to the grid of the    *)
(* values; the rounding of each floating-point product is not modelled.    *)
(***************************************************************************)
BetaDen == 2

\* betas in [0, 1)
BetaNums == 0 .. (BetaDen - 1)

\* torch.randperm(n): the permutations of the rows 0 .. n-1
Perms(n) ==
  {p \in [1 .. n -> 0 .. (n - 1)] : \A i, j \in 1 .. n : p[i] = p[j] => i = j}

\* x * beta + y * (1 - beta)
Blend(x, y, b) == (x * b + y * (BetaDen - b)) \div BetaDen

MixRows_IgnoresSelect(x, p, b, sel) ==
  [i \in 1 .. Len(x) |-> Blend(x[i], x[p[i] + 1], b[i])]

\* lines 638-641: x_shuf = x[perm];
\* x[select] = x[select] * betas[select] + x_shuf[select] * (1 - betas[select])
MixRows(x, p, b, sel) ==
  [i \in 1 .. Len(x) |->
     IF sel[i] THEN Blend(x[i], x[p[i] + 1], b[i]) ELSE x[i]]

\* utils.mixco(voxels) with the permutation, coefficients and mask it drew:
\* the same interpolation, on the voxel rows of one sub-batch
mixco(voxels, p, b, sel) == MixRows(voxels, p, b, sel)

\* what utils.mixco draws for a sub-batch of n rows: any permutation, any
\* mask, and the smallest or the largest coefficient for all rows
MixDraws(n) ==
  {[perm |-> p, betas |-> [i \in 1 .. n |-> b], select |-> sel] :
     p \in Perms(n), b \in {0, BetaDen - 1}, sel \in [1 .. n -> BOOLEAN]}

\* f with key k set to v
Put(f, k, v) == [x \in (DOMAIN f) \cup {k} |-> IF x = k THEN v ELSE f[x]]

\* lines 536-542: the buffers at the head of the pre-load
InitLoad ==
  /\ subj_list \in SubjLists
  /\ batch_size \in 1 .. MaxBatch
  /\ num_iterations_per_epoch * batch_size * Len(subj_list) <= MaxBufferRows
  /\ s_idx = 0
  /\ iter = -1
  /\ image_iters = [it \in 0 .. (num_iterations_per_epoch - 1) |->
                      [r \in 0 .. (batch_size * Len(subj_list) - 1) |-> 0]]
  /\ voxel_iters = <<>>
  /\ fetched_iters = <<>>
  /\ last_dropped = FALSE
  /\ ld_pc = "fetch"

\* lines 567-568 and the loop of line 540: after a stored batch
AfterStore(it) ==
  IF it >= num_iterations_per_epoch - 1
  THEN IF s_idx + 1 < Len(subj_list)
       THEN /\ s_idx' = s_idx + 1
            /\ iter' = -1
            /\ ld_pc' = "fetch"
       ELSE /\ iter' = it
            /\ ld_pc' = "done"
            /\ UNCHANGED s_idx
  ELSE /\ iter' = it
       /\ ld_pc' = "fetch"
       /\ UNCHANGED s_idx

\* lines 543-568: the loader of subject subj_list[s_idx + 1] yields batch b
FetchBatch ==
  /\ ld_pc = "fetch"
  /\ \E b \in [1 .. batch_size -> Trials] :
       LET subj == subj_list[s_idx + 1]
           image_idx == [i \in 1 .. batch_size |-> TrialImage(b[i])]
           u == Unique(image_idx)
           image0 == u.values
           image_sorted_idx == u.index
           voxel_idx == [i \in 1 .. batch_size |-> TrialVoxel(b[i])]
           voxel_sorted_idx == [j \in 1 .. Len(image0) |-> voxel_idx[image_sorted_idx[j]]]
           voxel0 == [j \in 1 .. Len(image0) |-> VoxelStore(subj, voxel_sorted_idx[j])]
           pixels == [j \in 1 .. Len(image0) |-> ImagePixels(image0[j])]
       IN  IF SkipsBatch(image0, image_idx)
           THEN /\ last_dropped' = TRUE
                /\ UNCHANGED <<s_idx, iter, image_iters, voxel_iters,
                               fetched_iters, ld_pc, descVars>>
           ELSE IF ~SliceAssignable(image0)
           THEN /\ ld_pc' = "crashed"
                /\ iter' = iter + 1
                /\ UNCHANGED <<s_idx, image_iters, voxel_iters, fetched_iters,
                               last_dropped, descVars>>
           ELSE /\ last_dropped' = FALSE
                /\ image_iters' = SliceAssign(image_iters, iter + 1, s_idx, pixels)
                /\ IF UseMixup(epoch[0])
                   THEN \E d \in MixDraws(Len(voxel0)) :
                          LET key == <<subj, iter + 1>>
                              made == <<epoch[0], subj, iter + 1>>
                          IN  /\ voxel_iters' = Put(voxel_iters, key,
                                    mixco(voxel0, d.perm, d.betas, d.select))
                              /\ perm_iters' = Put(perm_iters, key,
                                    [val |-> d.perm, made |-> made])
                              /\ betas_iters' = Put(betas_iters, key,
                                    [val |-> d.betas, made |-> made])
                              /\ select_iters' = Put(select_iters, key,
                                    [val |-> d.select, made |-> made])
                   ELSE /\ voxel_iters' = Put(voxel_iters, <<subj, iter + 1>>, voxel0)
                        /\ UNCHANGED descVars
                /\ fetched_iters' = Put(fetched_iters, <<subj, iter + 1>>, b)
                /\ AfterStore(iter + 1)
  /\ UNCHANGED <<cfgVars, ckptVars, blurry_recon, iterVars, bt_pc, runVars,
                 evalVars, subj_list, batch_size>>

InitLoadCfg ==
  /\ num_epochs = 1
  /\ num_iterations_per_epoch \in 1 .. MaxIters
  /\ mixup_num = 0
  /\ clip_scale = 1
  /\ ckpt_saving = FALSE
  /\ ckpt_interval = 1
  /\ num_test_batches = 1

LoadInit ==
  InitLoadCfg /\ InitLoad /\ InitRun(1, "preload") /\ IdleEval /\ IdleCkpt /\ IdleBatch

LoadNext == FetchBatch

SpecLoad == LoadInit /\ [][LoadNext]_vars

\* the rows of subject position s in the batch dimension
Slice(s) == (s * batch_size) .. (s * batch_size + batch_size - 1)

\* C1: every sub-batch the pre-load has stored holds batch_size pairwise
\* distinct images (of pairwise distinct image indices) and as many voxel rows,
\* and is the whole of one fetched batch without a repeated image index; a slot
\* nothing was stored in is still zero: no row of a skipped batch is stored.
C1_NoDuplicateImages ==
  \A it \in DOMAIN image_iters : \A s \in 0 .. (Len(subj_list) - 1) :
    LET key == <<subj_list[s + 1], it>>
    IN  IF key \in DOMAIN voxel_iters
        THEN /\ \A r1, r2 \in Slice(s) :
                  r1 # r2 => image_iters[it][r1] # image_iters[it][r2]
             /\ \A i, j \in 1 .. batch_size :
                  i # j => TrialImage(fetched_iters[key][i]) # TrialImage(fetched_iters[key][j])
             /\ {image_iters[it][r] : r \in Slice(s)}
                  = {ImagePixels(TrialImage(fetched_iters[key][i])) : i \in 1 .. batch_size}
             /\ Len(voxel_iters[key]) = batch_size
        ELSE \A r \in Slice(s) : image_iters[it][r] = 0

\* a pre-load of two subjects and two iterations, batches of two, that has
\* stored the second subject's first slot and then skipped a fetched batch
C1_Witness ==
  /\ batch_size = 2
  /\ Len(subj_list) = 2
  /\ num_iterations_per_epoch = 2
  /\ last_dropped
  /\ s_idx = 1
  /\ iter = 0
  /\ <<subj_list[2], 0>> \in DOMAIN voxel_iters

(***************************************************************************)
(* The evaluation of a test batch, lines 689-776 (SpecEval).               *)
(*                                                                         *)
(* A test batch holds TestBatchSize trials; the trial at position i shows  *)
(* image b[i] and has its voxels in row i of the subject's betas.  A       *)
(* tensor is its values, one per test sample, over a common denominator.   *)
(***************************************************************************)
TestBatchSize == 4

\* line 246 / --subj: the subject evaluated on
EvalSubj == subj_list[1]

\* lines 357-359: RidgeRegression.forward, the subject's own linear layer
ridge(x, subj_idx) == 2 * x + subj_idx

\* model.backbone (models.BrainNetwork): the conditioning representation
BackboneOut(h) == 3 * h + 1

\* model.backbone (models.BrainNetwork): the contrastive embedding
ClipOut(h) == h + 5

Repeat3_NoTrim(locs) ==
  IF Len(locs) = 1 THEN <<locs[1], locs[1], locs[1]>>
  ELSE IF Len(locs) = 2 THEN locs \o locs
  ELSE locs

\* lines 702-705: pad the positions of an image to three
Repeat3(locs) ==
  IF Len(locs) = 1 THEN <<locs[1], locs[1], locs[1]>>
  ELSE IF Len(locs) = 2 THEN SubSeq(locs \o locs, 1, 3)
  ELSE locs

\* line 701: torch.where(im == image)[0], the positions of image im, ascending
Locs(im, image) == SortedSeq({i \in 1 .. Len(image) : image[i] = im})

RECURSIVE BuildRows(_, _, _)
\* lines 700-712: the loop over the unique images `ims`; stops at the first
\* image whose assertion (line 706) fails
BuildRows(ims, image, acc) ==
  IF ims = <<>> THEN acc
  ELSE LET im == Head(ims)
           locs == Repeat3(Locs(im, image))
       IN  IF Len(locs) # 3
           THEN [acc EXCEPT !.ok = FALSE]
           ELSE BuildRows(Tail(ims), image,
                  [ok |-> TRUE,
                   image |-> Append(acc.image, ImagePixels(im)),
                   voxel |-> Append(acc.voxel,
                     [k \in 1 .. 3 |-> VoxelStore(EvalSubj, locs[k])])])

\* lines 694-712 for the batch whose image indices are `image`
BuildTestSet(image) ==
  BuildRows(SortedSeq(Range(image)), image, [ok |-> TRUE, image |-> <<>>, voxel |-> <<>>])

NeedsBuild_Always == TRUE

\* line 694: if test_image is None
NeedsBuild == ~test_built[0]

\* lines 689-722: a test batch arrives; the first one builds the test set
EvalTestBatch ==
  /\ ev_pc = "batch"
  /\ \E b \in [1 .. TestBatchSize -> 1 .. NumImages] :
       IF ~NeedsBuild
       THEN /\ ev_pc' = "rep"
            /\ UNCHANGED <<test_image, test_voxel, built_from, test_built,
                           raised>>
       ELSE LET r == BuildTestSet(b)
            IN  /\ test_image' = r.image
                /\ test_voxel' = r.voxel
                /\ built_from' = b
                /\ test_built' = [test_built EXCEPT ![0] = r.image # <<>>]
                /\ raised' = [raised EXCEPT ![0] =
                                IF r.ok THEN @ ELSE "AssertionError"]
                /\ ev_pc' = IF r.ok THEN "rep" ELSE "crashed"
  /\ rep' = 0
  /\ UNCHANGED <<cfgVars, ckptVars, batchVars, loadVars, pc, epoch, train_i, test_i, loss,
                 loss_phase, trainState, test_losses, clip_log, train_accum,
                 test_accum, bar, writing, files, tensors, clip_voxels,
                 clip_voxels0, backbone, backbone0>>

\* a tensor of the given values
Tensor(vals) == [num |-> vals, den |-> 1]

Accumulate_Rebind(heap, acc, new, r) == [heap |-> heap, acc |-> new]

\* lines 727-732: `acc = new` in the first round, `acc += new` (in place, on
\* the tensor acc is bound to) in the later ones
Accumulate(heap, acc, new, r) ==
  IF r = 0
  THEN [heap |-> heap, acc |-> new]
  ELSE [heap |-> [heap EXCEPT ![acc].num =
                    [n \in DOMAIN heap[acc].num |-> heap[acc].num[n] + heap[new].num[n]]],
        acc |-> acc]

\* lines 724-732: one round of the loop over the three repeats; the forward
\* pass returns two new tensors (at rep 0 those of an earlier batch are garbage)
EvalRep ==
  /\ ev_pc = "rep"
  /\ LET N == Len(test_voxel)
         voxel_ridge == [n \in 1 .. N |-> ridge(test_voxel[n][rep + 1], 0)]
         kept == IF rep = 0 THEN <<>> ELSE tensors
         b0 == Len(kept) + 1
         c0 == Len(kept) + 2
         heap0 == kept \o <<Tensor([n \in 1 .. N |-> BackboneOut(voxel_ridge[n])]),
                            Tensor([n \in 1 .. N |-> ClipOut(voxel_ridge[n])])>>
         c == Accumulate(heap0, clip_voxels, c0, rep)
         bb == Accumulate(c.heap, backbone, b0, rep)
     IN  /\ backbone0' = b0
         /\ clip_voxels0' = c0
         /\ clip_voxels' = c.acc
         /\ backbone' = bb.acc
         /\ tensors' = bb.heap
  /\ IF rep < 2
     THEN /\ rep' = rep + 1
          /\ UNCHANGED ev_pc
     ELSE /\ ev_pc' = "avg"
          /\ UNCHANGED rep
  /\ UNCHANGED <<cfgVars, ckptVars, batchVars, loadVars, runVars, test_image, test_voxel, built_from>>

\* lines 733-734: clip_voxels /= 3; backbone /= 3 (in place; when both names
\* are bound to one tensor it is divided twice)
EvalAverage ==
  /\ ev_pc = "avg"
  /\ LET h1 == [tensors EXCEPT ![clip_voxels].den = @ * 3]
     IN  tensors' = [h1 EXCEPT ![backbone].den = @ * 3]
  /\ ev_pc' = "score"
  /\ UNCHANGED <<cfgVars, ckptVars, batchVars, loadVars, runVars, test_image, test_voxel, built_from,
                 rep, clip_voxels, clip_voxels0, backbone, backbone0>>

\* lines 736-776: the loss terms on the averaged tensors, a test loss of kind l
EvalScore ==
  /\ ev_pc = "score"
  /\ \E l \in LossKinds :
       /\ loss' = [loss EXCEPT ![0] = l]
       /\ loss_phase' = [loss_phase EXCEPT ![0] = "test"]
       /\ test_accum' = [test_accum EXCEPT ![0] = @ + 1]
       /\ IF check_loss_raises(l)
          THEN /\ raised' = [raised EXCEPT ![0] = "ValueError"]
               /\ ev_pc' = "crashed"
               /\ UNCHANGED <<test_losses, test_i>>
          ELSE /\ test_losses' = [test_losses EXCEPT ![0] = Append(@, l)]
               /\ UNCHANGED raised
               /\ IF test_i[0] + 1 < num_test_batches
                  THEN /\ test_i' = [test_i EXCEPT ![0] = @ + 1]
                       /\ ev_pc' = "batch"
                  ELSE /\ ev_pc' = "done"
                       /\ UNCHANGED test_i
  /\ UNCHANGED <<cfgVars, ckptVars, batchVars, loadVars, pc, epoch, train_i, trainState, clip_log,
                 train_accum, test_built, bar, writing, files, test_image,
                 test_voxel, built_from, rep, tensors, clip_voxels,
                 clip_voxels0, backbone, backbone0>>

\* line 511 to line 689 of the next epoch, the training left out: the
\* accumulators are reset (lines 516-533) and test_dl is iterated again
NextEvalPass ==
  /\ ev_pc = "done"
  /\ epoch[0] + 1 < num_epochs
  /\ epoch' = [epoch EXCEPT ![0] = @ + 1]
  /\ test_i' = [test_i EXCEPT ![0] = 0]
  /\ test_accum' = [test_accum EXCEPT ![0] = 0]
  /\ ev_pc' = "batch"
  /\ UNCHANGED <<cfgVars, ckptVars, batchVars, loadVars, evalVars_but_pc, pc, train_i, loss,
                 loss_phase, raised, trainState, test_losses, clip_log,
                 train_accum, test_built, bar, writing, files>>

EvalInit ==
  /\ num_epochs \in {1, 2}
  /\ num_iterations_per_epoch = 1
  /\ mixup_num = 0
  /\ clip_scale = 1
  /\ ckpt_saving = FALSE
  /\ ckpt_interval = 1
  /\ num_test_batches \in 1 .. MaxTestBatches
  /\ IdleLoad
  /\ InitRun(1, "test")
  /\ IdleCkpt
  /\ IdleBatch
  /\ test_image = <<>>
  /\ test_voxel = <<>>
  /\ built_from = <<>>
  /\ rep = 0
  /\ tensors = <<>>
  /\ clip_voxels = 0
  /\ clip_voxels0 = 0
  /\ backbone = 0
  /\ backbone0 = 0
  /\ ev_pc = "batch"

EvalNext ==
  \/ EvalTestBatch
  \/ EvalRep
  \/ EvalAverage
  \/ EvalScore
  \/ NextEvalPass

SpecEval == EvalInit /\ [][EvalNext]_vars

(***************************************************************************)
(* Properties of the evaluation (SpecEval).                                *)
(***************************************************************************)
\* the number of presentations of image im in a batch
Presentations(im, image) == Cardinality({i \in 1 .. Len(image) : image[i] = im})

\* the voxel rows the grouping rule gives an image presented at positions p
\* (ascending): one presentation three times, two as first, second, first,
\* three once each
ExpectedRow(p) ==
  LET v(k) == VoxelStore(EvalSubj, p[k])
  IN  IF Len(p) = 1 THEN <<v(1), v(1), v(1)>>
      ELSE IF Len(p) = 2 THEN <<v(1), v(2), v(1)>>
      ELSE <<v(1), v(2), v(3)>>

\* C7 as claimed: whatever the presentation counts, building the test set
\* does not fail and gives every unique image of the batch exactly 3 slots.
C7_AlwaysThreeSlots ==
  built_from # <<>> =>
    /\ raised[0] # "AssertionError"
    /\ Len(test_voxel) = Cardinality(Range(built_from))
    /\ \A n \in 1 .. Len(test_voxel) : Len(test_voxel[n]) = 3

\* C7 amended: when no image of the batch has more than 3 presentations, every
\* unique image gets exactly 3 slots (1 presentation is used 3 times, 2 are
\* used as first, second, first, 3 once each), in ascending order of image
\* index; when an image has more than 3 presentations nothing is dropped: the
\* assertion of line 706 fails at that image and the build stops there, with
\* the rows of the smaller image indices only.
C7_ThreeSlotsUpToThree ==
  built_from # <<>> =>
    LET ims == SortedSeq(Range(built_from))
        over == {j \in 1 .. Len(ims) : Presentations(ims[j], built_from) > 3}
        upto == IF over = {} THEN Len(ims)
                ELSE (CHOOSE j \in over : \A h \in over : j <= h) - 1
    IN  /\ (raised[0] = "AssertionError") <=> (over # {})
        /\ over # {} => ev_pc = "crashed"
        /\ Len(test_voxel) = upto
        /\ Len(test_image) = upto
        /\ \A n \in 1 .. upto :
             /\ test_image[n] = ImagePixels(ims[n])
             /\ test_voxel[n] = ExpectedRow(Locs(ims[n], built_from))

\* a test set built from a batch with an image presented twice
C7_Witness ==
  /\ built_from # <<>>
  /\ ev_pc = "rep"
  /\ \E n \in 1 .. Len(test_voxel) :
       /\ Presentations(SortedSeq(Range(built_from))[n], built_from) = 2
       /\ test_voxel[n][1] = test_voxel[n][3]
       /\ test_voxel[n][1] # test_voxel[n][2]

\* C8: the contrastive embedding and the conditioning vector handed to the
\* loss terms are, for every test sample, (a+b+c)/3 with a, b, c the forward
\* outputs of the sample's three repeat slots, and they are two tensors.
C8_RepeatAverage ==
  ev_pc = "score" =>
    /\ clip_voxels # backbone
    /\ tensors[clip_voxels].den = 3
    /\ tensors[backbone].den = 3
    /\ Len(tensors[clip_voxels].num) = Len(test_voxel)
    /\ Len(tensors[backbone].num) = Len(test_voxel)
    /\ \A n \in 1 .. Len(test_voxel) :
         LET h(k) == ridge(test_voxel[n][k], 0)
         IN  /\ tensors[clip_voxels].num[n]
                  = ClipOut(h(1)) + ClipOut(h(2)) + ClipOut(h(3))
             /\ tensors[backbone].num[n]
                  = BackboneOut(h(1)) + BackboneOut(h(2)) + BackboneOut(h(3))

\* the averaged tensors of a test set with a sample of three different repeats
C8_Witness ==
  /\ ev_pc = "score"
  /\ \E n \in 1 .. Len(test_voxel) :
       /\ test_voxel[n][1] # test_voxel[n][2]
       /\ test_voxel[n][2] # test_voxel[n][3]
       /\ test_voxel[n][1] # test_voxel[n][3]
       /\ tensors[clip_voxels].num[n] > 3 * ClipOut(ridge(test_voxel[n][1], 0))

(***************************************************************************)
(* The Checkpoint Manager, lines 453-483 and 495-497 (SpecCkpt).           *)
(*                                                                         *)
(* One process starts up (the load of lines 495-497 when                   *)
(* --multisubject_ckpt is given), then trains epochs of one iteration and  *)
(* calls save_ckpt with the tags the script uses, in any order, and at     *)
(* last calls load_ckpt on a tag with any restoration flags.               *)
(***************************************************************************)
\* line 470: torch.load(outdir + '/last.pth'), whatever the tag
LoadPath(tag) == LastTag

DropIncompatible_Keep(sd, multisubj_loading) == sd

\* lines 472-473: state_dict.pop('ridge.linears.0.weight', None)
DropIncompatible(sd, multisubj_loading) ==
  IF multisubj_loading
  THEN [k \in (DOMAIN sd) \ {RidgeWeight(0)} |-> sd[k]]
  ELSE sd

\* line 474: model.load_state_dict(state_dict, strict=strict) on the model
\* `own`.  Every key of both with equal shapes is copied; a shape mismatch
\* raises whatever strict is, a missing or unexpected key raises when strict.
load_state_dict(own, sd, strict) ==
  LET both == (DOMAIN own) \cap (DOMAIN sd)
      mismatch == {k \in both : own[k].shape # sd[k].shape}
  IN  [params |-> [k \in DOMAIN own |->
                     IF k \in both \ mismatch THEN sd[k] ELSE own[k]],
       ok |-> /\ mismatch = {}
              /\ strict => (DOMAIN own) = (DOMAIN sd)]

\* lines 468-483: load_ckpt(tag, ...) on the directory `dir`; `back` is
\* where the caller continues
load_ckpt(w, tag, load_lr, load_optimizer, load_epoch, strict, dir, multisubj_loading, back) ==
  IF LoadPath(tag) \notin DOMAIN dir
  THEN /\ raised' = [raised EXCEPT ![w] = "FileNotFoundError"]
       /\ pc' = [pc EXCEPT ![w] = "crashed"]
       /\ UNCHANGED <<epoch, params, opt_steps, sched_steps>>
  ELSE LET checkpoint == dir[LoadPath(tag)]
           state_dict == DropIncompatible(checkpoint.model_state_dict,
                                          multisubj_loading)
           r == load_state_dict(params[w], state_dict, strict)
       IN  /\ params' = [params EXCEPT ![w] = r.params]
           /\ IF ~r.ok
              THEN /\ raised' = [raised EXCEPT ![w] = "RuntimeError"]
                   /\ pc' = [pc EXCEPT ![w] = "crashed"]
                   /\ UNCHANGED <<epoch, opt_steps, sched_steps>>
              ELSE /\ epoch' = [epoch EXCEPT ![w] =
                        IF load_epoch THEN checkpoint.epoch ELSE @]
                   /\ opt_steps' = [opt_steps EXCEPT ![w] =
                        IF load_optimizer THEN checkpoint.optimizer_state_dict ELSE @]
                   /\ sched_steps' = [sched_steps EXCEPT ![w] =
                        IF load_lr THEN checkpoint.lr_scheduler ELSE @]
                   /\ pc' = [pc EXCEPT ![w] = back]
                   /\ UNCHANGED raised

\* lines 495-497: the start-up load of a multi-subject checkpoint
StartupLoad ==
  /\ pc[0] = "startup"
  /\ IF multisubject_ckpt
     THEN /\ load_ckpt(0, LastTag, FALSE, FALSE, FALSE, FALSE,
                       multisubject_files, TRUE, "ready")
          /\ ck_call' = [op |-> "load", tag |-> LastTag, load_lr |-> FALSE,
                         load_optimizer |-> FALSE, load_epoch |-> FALSE,
                         strict |-> FALSE, multisubj_loading |-> TRUE]
     ELSE /\ pc' = [pc EXCEPT ![0] = "ready"]
          /\ UNCHANGED <<raised, epoch, params, opt_steps, sched_steps, ck_call>>
  /\ UNCHANGED <<cfgVars, loadVars, evalVars, batchVars, multisubject_ckpt,
                 multisubject_files, train_i, test_i, loss, loss_phase,
                 backward_calls, losses, lrs, test_losses, clip_log,
                 train_accum, test_accum, test_built, bar, writing, files>>

\* lines 511-837 of an epoch of one iteration, as far as the saved state goes
CkptEpoch ==
  /\ pc[0] = "ready"
  /\ epoch[0] < num_epochs
  /\ StepAndRecord(0, "finite")
  /\ epoch' = [epoch EXCEPT ![0] = @ + 1]
  /\ UNCHANGED <<cfgVars, loadVars, evalVars, batchVars, ckptVars, pc, train_i,
                 test_i, loss, loss_phase, raised, test_losses, clip_log,
                 train_accum, test_accum, test_built, bar, writing, files>>

\* lines 831 and 841: save_ckpt is called with the epoch's tag or with 'last'
CkptSave ==
  /\ pc[0] = "ready"
  /\ \E tag \in {LastTag, CkptTag(epoch[0])} :
       /\ save_ckpt(0, tag, "saving", "ready")
       /\ ck_call' = [NoCall EXCEPT !.op = "save", !.tag = tag]
  /\ UNCHANGED <<cfgVars, loadVars, evalVars, batchVars, multisubject_ckpt,
                 multisubject_files, epoch, train_i, test_i, loss, loss_phase,
                 raised, trainState, test_losses, clip_log, train_accum,
                 test_accum, test_built, bar, files>>

\* lines 457-465: torch.save ends
CkptWrite ==
  /\ pc[0] = "saving"
  /\ torch_save(0)
  /\ pc' = [pc EXCEPT ![0] = "ready"]
  /\ UNCHANGED <<cfgVars, loadVars, evalVars, batchVars, ckptVars, epoch,
                 train_i, test_i, loss, loss_phase, raised, trainState,
                 test_losses, clip_log, train_accum, test_accum, test_built, bar>>

\* the tags the script saves under
Tags == {LastTag} \cup {CkptTag(e) : e \in 0 .. num_epochs}

\* load_ckpt(tag, load_lr, load_optimizer, load_epoch) on outdir, the other
\* arguments at their defaults (line 468)
CkptLoad ==
  /\ pc[0] = "ready"
  /\ \E tag \in Tags : \E lr, op, ep \in BOOLEAN :
       /\ load_ckpt(0, tag, lr, op, ep, TRUE, files, FALSE, "loaded")
       /\ ck_call' = [op |-> "load", tag |-> tag, load_lr |-> lr,
                      load_optimizer |-> op, load_epoch |-> ep,
                      strict |-> TRUE, multisubj_loading |-> FALSE]
  /\ UNCHANGED <<cfgVars, loadVars, evalVars, batchVars, multisubject_ckpt,
                 multisubject_files, train_i, test_i, loss, loss_phase,
                 backward_calls, losses, lrs, test_losses, clip_log,
                 train_accum, test_accum, test_built, bar, writing, files>>

\* the subjects of the multi-subject stage (lines 186-188)
Stage1Subjects == <<2, 3>>

\* multisubject_ckpt + '/last.pth': what the multi-subject stage saved at its
\* end (line 841), after num_epochs epochs of one iteration
Stage1Checkpoint ==
  [epoch |-> num_epochs - 1,
   model_state_dict |-> OptimizerStep(InitModel(Stage1Subjects, "stage1")),
   optimizer_state_dict |-> num_epochs,
   lr_scheduler |-> num_epochs,
   train_losses |-> [i \in 1 .. num_epochs |-> "finite"],
   test_losses |-> [i \in 1 .. num_epochs |-> "finite"],
   lrs |-> [i \in 1 .. num_epochs |-> i - 1]]

CkptInit ==
  /\ num_epochs \in 1 .. MaxEpochs
  /\ num_iterations_per_epoch = 1
  /\ mixup_num = 0
  /\ clip_scale = 1
  /\ ckpt_saving = TRUE
  /\ ckpt_interval = 1
  /\ num_test_batches = 1
  /\ IdleLoad
  /\ InitRun(1, "startup")
  /\ IdleEval
  /\ IdleBatch
  /\ multisubject_ckpt \in BOOLEAN
  /\ multisubject_files \in
       IF multisubject_ckpt
       THEN {<<>>, [t \in {LastTag} |-> Stage1Checkpoint]}
       ELSE {<<>>}
  /\ ck_call = NoCall

CkptNext ==
  \/ StartupLoad
  \/ CkptEpoch
  \/ CkptSave
  \/ CkptWrite
  \/ CkptLoad

SpecCkpt == CkptInit /\ [][CkptNext]_vars

(***************************************************************************)
(* Properties of the Checkpoint Manager (SpecCkpt).                        *)
(***************************************************************************)
\* the process holds the epoch counter, parameters, optimizer state and
\* scheduler state of the checkpoint c
Restored(c) ==
  /\ epoch[0] = c.epoch
  /\ params[0] = c.model_state_dict
  /\ opt_steps[0] = c.optimizer_state_dict
  /\ sched_steps[0] = c.lr_scheduler

\* load_ckpt(tag) with all restoration flags true has just returned or raised
FullLoadDone ==
  /\ pc[0] \in {"loaded", "crashed"}
  /\ ck_call.op = "load"
  /\ ~ck_call.multisubj_loading
  /\ ck_call.load_lr /\ ck_call.load_optimizer /\ ck_call.load_epoch

\* C11: after save_ckpt(tag) and then load_ckpt(tag) with all restoration
\* flags true, the process holds exactly the epoch counter, parameters,
\* optimizer state and scheduler state that save_ckpt(tag) wrote, whatever was
\* saved under other tags.
C11_RoundTripEveryTag ==
  (FullLoadDone /\ ck_call.tag \in DOMAIN files)
    => /\ raised[0] = "none"
       /\ Restored(files[ck_call.tag])

\* C11, what load_ckpt does: whatever the tag, it restores the state saved
\* under 'last', and raises FileNotFoundError when nothing was saved under
\* 'last'; the round trip holds for the tag 'last'.
C11_LoadsLastWhateverTag ==
  FullLoadDone
    => IF LastTag \in DOMAIN files
       THEN raised[0] = "none" /\ Restored(files[LastTag])
       ELSE raised[0] = "FileNotFoundError"

\* load_ckpt of an epoch's tag, saved earlier, has restored the other state
\* that was saved under 'last'
C11_Witness ==
  /\ FullLoadDone
  /\ ck_call.tag = CkptTag(0)
  /\ CkptTag(0) \in DOMAIN files
  /\ LastTag \in DOMAIN files
  /\ files[LastTag].epoch = 1
  /\ files[CkptTag(0)].epoch = 0
  /\ Restored(files[LastTag])

\* the start-up load of an existing multi-subject checkpoint has been made
\* and nothing was trained since
MultisubjectLoaded ==
  /\ ck_call.op = "load"
  /\ ck_call.multisubj_loading
  /\ LastTag \in DOMAIN multisubject_files
  /\ losses[0] = <<>>
  /\ pc[0] # "loaded"

\* the load did not raise, the subject's projection weight is the freshly
\* initialized one and not the checkpoint's, and the epoch counter, the
\* optimizer state and the scheduler state are those of a fresh run
FreshButWeights ==
  LET sd == multisubject_files[LastTag].model_state_dict
  IN  /\ raised[0] = "none"
      /\ pc[0] \in {"ready", "saving"}
      /\ params[0][RidgeWeight(0)] = InitModel(subj_list, "run")[RidgeWeight(0)]
      /\ params[0][RidgeWeight(0)] # sd[RidgeWeight(0)]
      /\ epoch[0] = 0
      /\ opt_steps[0] = 0
      /\ sched_steps[0] = 0

\* C12 as stated: loading a multi-subject checkpoint into a single-subject
\* run with the compatibility flag does not raise, leaves the subject's
\* projection weight freshly initialized, restores every other parameter
\* present in the checkpoint, and leaves epoch, optimizer and scheduler alone.
C12_EveryCheckpointParameter ==
  MultisubjectLoaded
    => /\ FreshButWeights
       /\ \A k \in (DOMAIN multisubject_files[LastTag].model_state_dict)
                     \ {RidgeWeight(0)} :
            /\ k \in DOMAIN params[0]
            /\ params[0][k] = multisubject_files[LastTag].model_state_dict[k]

\* C12, amended: as above, but the parameters restored are those of the
\* checkpoint that the single-subject model has (the first projection
\* layer's bias and the backbone); the checkpoint's projection layers of the
\* other subjects have no counterpart in the model and are ignored.
C12_EveryModelParameter ==
  MultisubjectLoaded
    => LET sd == multisubject_files[LastTag].model_state_dict
       IN  /\ FreshButWeights
           /\ DOMAIN params[0] = ModelKeys(subj_list)
           /\ \A k \in (DOMAIN params[0]) \ {RidgeWeight(0)} :
                /\ k \in DOMAIN sd
                /\ params[0][k] = sd[k]
           /\ \E k \in DOMAIN sd : k \notin DOMAIN params[0]

\* the start-up load has run on an existing multi-subject checkpoint
C12_Witness ==
  /\ MultisubjectLoaded
  /\ pc[0] = "ready"
  /\ params[0][BackboneKey].init = "stage1"
  /\ params[0][RidgeBias(0)].init = "stage1"
  /\ params[0][RidgeWeight(0)].init = "run"

(***************************************************************************)
(* The batches of the training iterations, lines 536-641 (SpecBatch).      *)
(*                                                                         *)
(* Each epoch pre-loads its batches (FetchBatch) and then assembles one    *)
(* batch per training iteration: the subjects' voxel rows, the images, in  *)
(* the mixup epochs the concatenated descriptors, the projections and the  *)
(* image latents.  Tensors of the iteration are sequences: row r of the    *)
(* code is at position r + 1.                                              *)
(***************************************************************************)
BatchEpochs == 2

\* subj_list, batch_size, num_iterations_per_epoch and --blurry_recon of the
\* runs looked at
BatchShapes ==
  {[subj_list |-> <<2, 3>>, batch_size |-> 2, iterations |-> 1, blurry_recon |-> TRUE],
   [subj_list |-> <<1>>, batch_size |-> 1, iterations |-> 2, blurry_recon |-> TRUE],
   [subj_list |-> <<1>>, batch_size |-> 2, iterations |-> 1, blurry_recon |-> FALSE]}

RECURSIVE Cat(_)
\* torch.cat(list, dim=0)
Cat(list) == IF list = <<>> THEN <<>> ELSE Head(list) \o Cat(Tail(list))

\* autoenc.encode(2 * image - 1).latent_dist.mode() * 0.18215, line 633: the
\* latent of an image
AutoencLatent(px) == 2 * px - 1

DescriptorKey_FirstIter(subj, i) == <<subj, 0>>

\* lines 586, 588, 590: f"subj0{s}_iter{train_i}"
DescriptorKey(subj, i) == <<subj, i>>

voxel_ridge_list_FirstLayer(vl) ==
  [si \in 1 .. Len(vl) |-> [j \in 1 .. Len(vl[si]) |-> ridge(vl[si][j], 0)]]

\* line 594: [model.ridge(voxel_list[si], si) for si, s in enumerate(subj_list)]
voxel_ridge_list(vl) ==
  [si \in 1 .. Len(vl) |-> [j \in 1 .. Len(vl[si]) |-> ridge(vl[si][j], si - 1)]]

\* lines 586-591: torch.cat of the subjects' tensors of a descriptor
CatDescriptor(dict, i) ==
  [val |-> Cat([si \in 1 .. Len(subj_list) |->
                  dict[DescriptorKey(subj_list[si], i)].val]),
   parts |-> [si \in 1 .. Len(subj_list) |->
                dict[DescriptorKey(subj_list[si], i)].made]]

\* lines 571-641: the batch of training iteration train_i is assembled
TrainBatch ==
  /\ ld_pc = "done"
  /\ bt_pc = "assemble"
  /\ LET i == train_i[0]
         n == Len(subj_list)
         mix == UseMixup(epoch[0])
         vkeys == {<<subj_list[si], i>> : si \in 1 .. n}
         dkeys == {DescriptorKey(subj_list[si], i) : si \in 1 .. n}
     IN  IF \/ ~(vkeys \subseteq DOMAIN voxel_iters)
            \/ mix /\ ~(dkeys \subseteq DOMAIN perm_iters)
         THEN /\ raised' = [raised EXCEPT ![0] = "KeyError"]
              /\ bt_pc' = "crashed"
              /\ UNCHANGED <<iterVars, train_i>>
         ELSE LET vl == [si \in 1 .. n |-> voxel_iters[<<subj_list[si], i>>]]
                  img == [r \in 1 .. (n * batch_size) |-> image_iters[i][r - 1]]
                  p == CatDescriptor(perm_iters, i)
                  b == CatDescriptor(betas_iters, i)
                  sel == CatDescriptor(select_iters, i)
                  enc == [r \in 1 .. Len(img) |-> AutoencLatent(img[r])]
              IN  /\ voxel_list' = vl
                  /\ train_image' = img
                  /\ IF mix
                     THEN perm' = p /\ betas' = b /\ select' = sel
                     ELSE UNCHANGED <<perm, betas, select>>
                  /\ train_voxel_ridge' = Cat(voxel_ridge_list(vl))
                  /\ image_enc' =
                       IF ~blurry_recon THEN image_enc
                       ELSE IF mix THEN MixRows(enc, p.val, b.val, sel.val)
                       ELSE enc
                  /\ train_i' = [train_i EXCEPT ![0] = i + 1]
                  /\ bt_pc' = IF i + 1 < num_iterations_per_epoch
                              THEN "assemble" ELSE "epoch_end"
                  /\ UNCHANGED raised
  /\ UNCHANGED <<cfgVars, ckptVars, loadVars, evalVars, blurry_recon, descVars,
                 pc, epoch, test_i, loss, loss_phase, trainState, test_losses,
                 clip_log, train_accum, test_accum, test_built, bar, writing,
                 files>>

\* lines 511-542 of the next epoch: the buffers and the descriptor
\* dictionaries are created anew.  The tensors of the last iteration are
\* dead by then (each is assigned again before it is read) and are dropped.
BatchNextEpoch ==
  /\ bt_pc = "epoch_end"
  /\ epoch[0] + 1 < num_epochs
  /\ epoch' = [epoch EXCEPT ![0] = @ + 1]
  /\ train_i' = [train_i EXCEPT ![0] = 0]
  /\ s_idx' = 0
  /\ iter' = -1
  /\ image_iters' = [it \in 0 .. (num_iterations_per_epoch - 1) |->
                       [r \in 0 .. (batch_size * Len(subj_list) - 1) |-> 0]]
  /\ voxel_iters' = <<>>
  /\ fetched_iters' = <<>>
  /\ last_dropped' = FALSE
  /\ ld_pc' = "fetch"
  /\ perm_iters' = <<>>
  /\ betas_iters' = <<>>
  /\ select_iters' = <<>>
  /\ voxel_list' = <<>>
  /\ train_image' = <<>>
  /\ perm' = <<>>
  /\ betas' = <<>>
  /\ select' = <<>>
  /\ train_voxel_ridge' = <<>>
  /\ image_enc' = <<>>
  /\ bt_pc' = "assemble"
  /\ UNCHANGED <<cfgVars, ckptVars, evalVars, blurry_recon, subj_list,
                 batch_size, pc, test_i, loss, loss_phase, raised, trainState,
                 test_losses, clip_log, train_accum, test_accum, test_built,
                 bar, writing, files>>

BatchInit ==
  /\ num_epochs = BatchEpochs
  /\ mixup_num \in 0 .. MixupDen
  /\ clip_scale = 1
  /\ ckpt_saving = FALSE
  /\ ckpt_interval = 1
  /\ num_test_batches = 1
  /\ \E sh \in BatchShapes :
       /\ subj_list = sh.subj_list
       /\ batch_size = sh.batch_size
       /\ num_iterations_per_epoch = sh.iterations
       /\ blurry_recon = sh.blurry_recon
  /\ s_idx = 0
  /\ iter = -1
  /\ image_iters = [it \in 0 .. (num_iterations_per_epoch - 1) |->
                      [r \in 0 .. (batch_size * Len(subj_list) - 1) |-> 0]]
  /\ voxel_iters = <<>>
  /\ fetched_iters = <<>>
  /\ last_dropped = FALSE
  /\ ld_pc = "fetch"
  /\ InitRun(1, "train")
  /\ IdleEval
  /\ IdleCkpt
  /\ NoDescriptors
  /\ NoBatch
  /\ bt_pc = "assemble"

BatchNext ==
  \/ FetchBatch
  \/ TrainBatch
  \/ BatchNextEpoch

SpecBatch == BatchInit /\ [][BatchNext]_vars

(***************************************************************************)
(* Properties of the batches (SpecBatch, SpecLoad).                        *)
(***************************************************************************)
\* the trials of a stored batch in ascending order of their image index
SortedTrials(b) ==
  CHOOSE st \in [1 .. Len(b) -> Range(b)] :
    /\ Range(st) = Range(b)
    /\ \A i, j \in 1 .. Len(b) : i < j => TrialImage(st[i]) < TrialImage(st[j])

\* the voxel rows of the trials of batch b of subject subj, in that order
BaseVoxels(subj, b) ==
  [j \in 1 .. Len(b) |-> VoxelStore(subj, TrialVoxel(SortedTrials(b)[j]))]

\* an iteration's batch has been assembled in this epoch; the last one is
\* that of iteration train_i - 1
JustAssembled ==
  /\ ld_pc = "done"
  /\ bt_pc \in {"assemble", "epoch_end"}
  /\ train_i[0] >= 1

\* the rows of subject position si (1-based) in a concatenated tensor
Part(t, si) == SubSeq(t, (si - 1) * batch_size + 1, si * batch_size)

\* C14: in a mixup epoch, the permutation, coefficients and mask handed to
\* the loss in iteration i are, subject by subject, the tensors made by the
\* mixco call that corrupted that subject's voxel sub-batch of iteration i in
\* this epoch, and the voxel rows used are the rows that call returned; no
\* iteration that is assembled finds them missing.
C14_DescriptorsOfTheIteration ==
  /\ raised[0] # "KeyError"
  /\ (JustAssembled /\ UseMixup(epoch[0]))
       => \A si \in 1 .. Len(subj_list) :
            LET subj == subj_list[si]
                i == train_i[0] - 1
                made == <<epoch[0], subj, i>>
            IN  /\ perm.parts[si] = made
                /\ betas.parts[si] = made
                /\ select.parts[si] = made
                /\ perm_iters[<<subj, i>>].made = made
                /\ Part(perm.val, si) = perm_iters[<<subj, i>>].val
                /\ Part(betas.val, si) = betas_iters[<<subj, i>>].val
                /\ Part(select.val, si) = select_iters[<<subj, i>>].val
                /\ voxel_list[si] = voxel_iters[<<subj, i>>]

\* the second iteration of a mixup epoch has been assembled, with a
\* permutation that differs from the first iteration's
C14_Witness ==
  /\ JustAssembled
  /\ UseMixup(epoch[0])
  /\ epoch[0] = 1
  /\ train_i[0] = 2
  /\ perm_iters[<<subj_list[1], 0>>].made # perm_iters[<<subj_list[1], 1>>].made
  /\ select_iters[<<subj_list[1], 0>>].val # select_iters[<<subj_list[1], 1>>].val
  /\ select.val = select_iters[<<subj_list[1], 1>>].val

\* C15: in every assembled batch, row r belongs to subject s = r div
\* batch_size of subj_list: its image and its voxel row are those of one
\* trial of that subject's stored batch (in a mixup epoch the voxel row is
\* what the corruption made of that trial's row, stored at the same
\* position), the voxel row is projected by the subject's own layer s,
\* and the subjects' slices follow each other in subj_list order in the
\* image batch and in the projected batch.
C15_RowPairing ==
  JustAssembled
    => LET i == train_i[0] - 1
           n == Len(subj_list)
       IN  /\ Len(train_image) = n * batch_size
           /\ Len(train_voxel_ridge) = n * batch_size
           /\ \A r \in 0 .. (n * batch_size - 1) :
                LET s == r \div batch_size
                    j == (r % batch_size) + 1
                    subj == subj_list[s + 1]
                    b == fetched_iters[<<subj, i>>]
                    t == SortedTrials(b)[j]
                    base == BaseVoxels(subj, b)
                    rows == IF UseMixup(epoch[0])
                            THEN voxel_iters[<<subj, i>>]
                            ELSE base
                IN  /\ train_image[r + 1] = ImagePixels(TrialImage(t))
                    /\ base[j] = VoxelStore(subj, TrialVoxel(t))
                    /\ voxel_list[s + 1][j] = rows[j]
                    /\ train_voxel_ridge[r + 1] = ridge(rows[j], s)

\* a batch of two subjects, two rows each, has been assembled from batches
\* the loaders did not yield in image order
C15_Witness ==
  /\ JustAssembled
  /\ Len(subj_list) = 2
  /\ batch_size = 2
  /\ ~UseMixup(epoch[0])
  /\ \A si \in 1 .. 2 :
       LET b == fetched_iters[<<subj_list[si], 0>>]
       IN  TrialImage(b[1]) > TrialImage(b[2])
  /\ train_voxel_ridge[3] = ridge(voxel_list[2][1], 1)

\* C16 as stated: row k of a stored sub-batch holds the image of the k-th
\* trial of the fetched batch, in the order the loader yielded the trials.
C16_LoaderOrder ==
  \A it \in DOMAIN image_iters : \A s \in 0 .. (Len(subj_list) - 1) :
    LET key == <<subj_list[s + 1], it>>
    IN  key \in DOMAIN voxel_iters
          => \A k \in 1 .. batch_size :
               image_iters[it][s * batch_size + k - 1]
                 = ImagePixels(TrialImage(fetched_iters[key][k]))

\* C16, amended: nothing is scattered back.  Row k of a stored sub-batch
\* holds the image with the k-th smallest image index of the fetched batch,
\* and the voxel rows are stored in that same order.
C16_ImageIndexOrder ==
  \A it \in DOMAIN image_iters : \A s \in 0 .. (Len(subj_list) - 1) :
    LET key == <<subj_list[s + 1], it>>
    IN  key \in DOMAIN voxel_iters
          => /\ \A k \in 1 .. batch_size :
                  image_iters[it][s * batch_size + k - 1]
                    = ImagePixels(TrialImage(SortedTrials(fetched_iters[key])[k]))
             /\ \A k \in 1 .. (batch_size - 1) :
                  image_iters[it][s * batch_size + k - 1]
                    < image_iters[it][s * batch_size + k]
             /\ voxel_iters[key] = BaseVoxels(subj_list[s + 1], fetched_iters[key])

\* a batch the loader yielded with the larger image index first is stored
C16_Witness ==
  /\ batch_size = 2
  /\ <<subj_list[1], 0>> \in DOMAIN voxel_iters
  /\ LET b == fetched_iters[<<subj_list[1], 0>>]
     IN  /\ TrialImage(b[1]) > TrialImage(b[2])
         /\ image_iters[0][0] = ImagePixels(TrialImage(b[2]))
         /\ image_iters[0][1] = ImagePixels(TrialImage(b[1]))

\* C17: in a mixup epoch, for every selected row r of the assembled batch,
\* perm[r] of the concatenated permutation is the assembled-batch row whose
\* voxel row was blended into row r, a row of the same subject's slice.
C17_PermPointsAtBlendedRow ==
  (JustAssembled /\ UseMixup(epoch[0]))
    => \A r \in 0 .. (Len(subj_list) * batch_size - 1) :
         LET s == r \div batch_size
             j == (r % batch_size) + 1
             key == <<subj_list[s + 1], train_i[0] - 1>>
         IN  select.val[r + 1]
               => /\ perm.val[r + 1] = s * batch_size + perm_iters[key].val[j]
                  /\ perm.val[r + 1] \in Slice(s)

\* C17, what the code does: the sub-batch permutations are concatenated as
\* they are, so perm[r] is the position inside the sub-batch, a row of the
\* first subject's slice, and the image latents are mixed with that row.
C17_PermNotOffset ==
  (JustAssembled /\ UseMixup(epoch[0]))
    => \A r \in 0 .. (Len(subj_list) * batch_size - 1) :
         LET s == r \div batch_size
             j == (r % batch_size) + 1
             key == <<subj_list[s + 1], train_i[0] - 1>>
         IN  /\ perm.val[r + 1] = perm_iters[key].val[j]
             /\ perm.val[r + 1] \in Slice(0)
             /\ (blurry_recon /\ select.val[r + 1])
                  => image_enc[r + 1] =
                       Blend(AutoencLatent(train_image[r + 1]),
                             AutoencLatent(train_image[perm.val[r + 1] + 1]),
                             betas.val[r + 1])

\* a selected row of the second subject whose voxel row was blended with the
\* other row of its sub-batch while perm points into the first subject's slice
C17_Witness ==
  /\ JustAssembled
  /\ UseMixup(epoch[0])
  /\ Len(subj_list) = 2
  /\ batch_size = 2
  /\ select.val[3]
  /\ perm_iters[<<subj_list[2], 0>>].val = <<1, 0>>
  /\ perm.val[3] = 1
  /\ voxel_list[2][1] # BaseVoxels(subj_list[2], fetched_iters[<<subj_list[2], 0>>])[1]

(***************************************************************************)
(* The interpolation on its own (SpecMix): one sub-batch of one subject    *)
(* with any permutation, any coefficients and any mask, corrupted as the   *)
(* pre-load corrupts the voxel rows (line 561) and as the iteration        *)
(* corrupts the image latents (lines 633-641).                             *)
(***************************************************************************)
MixKey == <<1, 0>>

\* line 561: voxel0, perm, betas, select = utils.mixco(voxel0)
MixVoxels ==
  /\ bt_pc = "drawn"
  /\ voxel_iters' = Put(voxel_iters, MixKey,
                        mixco(voxel_list[1], perm.val, betas.val, select.val))
  /\ bt_pc' = "voxels"
  /\ UNCHANGED <<cfgVars, runVars, evalVars, ckptVars, blurry_recon, descVars,
                 iterVars, subj_list, batch_size, s_idx, iter, image_iters,
                 fetched_iters, last_dropped, ld_pc>>

\* lines 633-641: the latents of the images, then the same interpolation
MixImage ==
  /\ bt_pc = "voxels"
  /\ image_enc' =
       MixRows([r \in 1 .. Len(train_image) |-> AutoencLatent(train_image[r])],
               perm.val, betas.val, select.val)
  /\ bt_pc' = "mixed"
  /\ UNCHANGED <<cfgVars, runVars, evalVars, ckptVars, blurry_recon, descVars,
                 loadVars, voxel_list, train_image, perm, betas, select,
                 train_voxel_ridge>>

MixInit ==
  /\ num_epochs = 1
  /\ num_iterations_per_epoch = 1
  /\ mixup_num = MixupDen
  /\ clip_scale = 1
  /\ ckpt_saving = FALSE
  /\ ckpt_interval = 1
  /\ num_test_batches = 1
  /\ subj_list = <<1>>
  /\ batch_size \in 1 .. MaxBatch
  /\ s_idx = 0
  /\ iter = 0
  /\ image_iters = <<>>
  /\ voxel_iters = <<>>
  /\ \E b \in [1 .. batch_size -> Trials] :
       /\ fetched_iters = Put(<<>>, MixKey, b)
       /\ voxel_list = <<[j \in 1 .. batch_size |-> VoxelStore(1, TrialVoxel(b[j]))]>>
       /\ train_image = [j \in 1 .. batch_size |-> ImagePixels(TrialImage(b[j]))]
  /\ last_dropped = FALSE
  /\ ld_pc = "idle"
  /\ InitRun(1, "train")
  /\ IdleEval
  /\ IdleCkpt
  /\ blurry_recon = TRUE
  /\ NoDescriptors
  /\ \E p \in Perms(batch_size), b \in [1 .. batch_size -> BetaNums],
        sel \in [1 .. batch_size -> BOOLEAN] :
       /\ perm = [val |-> p, parts |-> <<>>]
       /\ betas = [val |-> b, parts |-> <<>>]
       /\ select = [val |-> sel, parts |-> <<>>]
  /\ train_voxel_ridge = <<>>
  /\ image_enc = <<>>
  /\ bt_pc = "drawn"

MixNext ==
  \/ MixVoxels
  \/ MixImage

SpecMix == MixInit /\ [][MixNext]_vars

\* row i is not touched by the interpolation or is interpolated with itself
KeptRow(i) == ~select.val[i] \/ perm.val[i] = i - 1

\* C13: the interpolation x[i] = x[i]*beta[i] + x[perm[i]]*(1-beta[i]) of
\* the selected rows leaves row i as it was whenever perm[i] = i, whatever
\* beta[i] and the mask, and leaves every row that is not selected as it was:
\* for the voxel rows and for the image latents.
C13_FixedPointsAndUnselected ==
  /\ bt_pc \in {"voxels", "mixed"}
       => \A i \in 1 .. batch_size :
            KeptRow(i) => voxel_iters[MixKey][i] = voxel_list[1][i]
  /\ bt_pc = "mixed"
       => \A i \in 1 .. batch_size :
            KeptRow(i) => image_enc[i] = AutoencLatent(train_image[i])

\* both tensors are corrupted: a selected row with perm[i] = i and a
\* coefficient other than 0, next to a different row that is not selected
C13_Witness ==
  /\ bt_pc = "mixed"
  /\ batch_size = 2
  /\ select.val[1]
  /\ perm.val[1] = 0
  /\ betas.val[1] > 0
  /\ ~select.val[2]
  /\ voxel_list[1][1] # voxel_list[1][2]
  /\ train_image[1] # train_image[2]

(***************************************************************************)
(* The test set over the epochs (SpecEval).                                *)
(***************************************************************************)
\* the grouped test set or the record of the batch it was built from changes
TestSetChanges ==
  \/ test_image' # test_image
  \/ test_voxel' # test_voxel
  \/ built_from' # built_from

\* the test batches scored so far in a run that has not raised
TestBatchesScored ==
  epoch[0] * num_test_batches + test_i[0] + (IF ev_pc = "done" THEN 1 ELSE 0)

====
